---- MODULE Spec2Model ----
(***************************************************************************)
(* Weather analytics pipeline: the Collector (data_collector.py) writes    *)
(* three SQLite tables, the Analyzer, Quality Checker and Visualizer read  *)
(* them, and main.py sequences the four stages.                            *)
(*                                                                         *)
(* Conventions of the model                                                *)
(*   - a nullable value (Python None, SQL NULL, JSON null) is the empty    *)
(*     sequence <<>>, a present value v is <<v>>;                          *)
(*   - a JSON object / Python dict is a record whose DOMAIN is its keys;   *)
(*   - a table is the sequence of its rows in rowid order (the id column   *)
(*     is INTEGER PRIMARY KEY: a new row gets max(id)+1, so it is last);   *)
(*   - datetime.now().isoformat() is the logical clock `now`, one tick per *)
(*     run; the timestamp of a file name has a resolution of one second    *)
(*     and is the variable `second`;                                       *)
(*   - temperatures are whole degrees.                                     *)
(* Environment assumption: a 200 response carries a JSON object whose      *)
(* sections, when present, are objects holding lists (sections and keys    *)
(* may be missing, lists may be short).                                    *)
(***************************************************************************)
EXTENDS Integers, Sequences, FiniteSets, TLC

VARIABLES
    schema,            \* TRUE once _init_db has created the three tables
    weather_current,   \* table weather_current
    weather_daily,     \* table weather_daily
    weather_hourly,    \* table weather_hourly
    results_dir,       \* files written under results/
    now,               \* logical clock: number of runs started
    second,            \* the wall clock in whole seconds, as strftime("%Y%m%d_%H%M%S") shows it
    stage_runs,        \* number of runs started with flags other than --collect alone
    pc,                \* position of main
    args,              \* parsed stage flags of the running main
    tasks,             \* the per-city requests of the running batch
    collector_obj,     \* main's local: the list collect_batch returned
    analysis_report,   \* main's local
    quality_report,    \* main's local
    viz_files,         \* main's local
    MATPLOTLIB_AVAILABLE, \* chart_generator's global, unset until the module is imported
    exit_code,         \* what main returned
    started,           \* stages entered in this run, in order
    completed,         \* stages that returned in this run, in order
    raised,            \* the stage whose exception reached main's handler
    interrupted,       \* TRUE when KeyboardInterrupt ended the run
    lastOk,            \* history: per city, the last saved successful item
    lastCurrent,       \* history: per city, the last saved item with a current section
    hist               \* history: per city, the (daily, hourly) lengths of each saved item

vars == <<schema, weather_current, weather_daily, weather_hourly, results_dir, now,
          second, MATPLOTLIB_AVAILABLE, stage_runs, pc, args, tasks, collector_obj, analysis_report, quality_report,
          viz_files, exit_code, started, completed, raised, interrupted,
          lastOk, lastCurrent, hist>>

store == <<schema, weather_current, weather_daily, weather_hourly>>

history == <<lastOk, lastCurrent, hist>>

\* Number of runs of main explored.
MaxRuns == 2

\* Number of those runs whose flags are not "--collect" alone.
MaxStageRuns == 1

None == <<>>

Some(v) == <<v>>

\* Python truthiness of a nullable number: None and 0 are falsy.
Truthy(x) == x # None /\ x[1] # 0

\* DataCollector.DEFAULT_CITIES, cut to two of its ten entries.
DEFAULT_CITIES == <<"Moskva", "Sochi">>

CityNames == {DEFAULT_CITIES[i] : i \in DOMAIN DEFAULT_CITIES}

-----------------------------------------------------------------------------
(* The forecast API: what one GET can produce.                             *)

\* A complete body.
BodyTypical ==
    [current |-> [temperature_2m |-> Some(20), relative_humidity_2m |-> Some(50),
                  wind_speed_10m |-> Some(3)],
     daily |-> [time |-> <<"d1", "d2">>,
                temperature_2m_max |-> <<Some(30), Some(28)>>,
                temperature_2m_min |-> <<Some(20), Some(19)>>,
                precipitation_sum |-> <<Some(0), Some(60)>>],
     hourly |-> [time |-> <<"h1", "h2">>,
                 temperature_2m |-> <<Some(18), Some(22)>>]]

\* An unrealistically cold observation, metric arrays shorter than time.
BodyCold ==
    [current |-> [temperature_2m |-> Some(-70), relative_humidity_2m |-> Some(120),
                  wind_speed_10m |-> Some(3)],
     daily |-> [time |-> <<"d1", "d2">>,
                temperature_2m_max |-> <<Some(0)>>,
                temperature_2m_min |-> <<Some(-15)>>,
                precipitation_sum |-> <<>>],
     hourly |-> [time |-> <<"h1">>, temperature_2m |-> <<>>]]

\* A body without the current and hourly sections.
BodyNoCurrent ==
    [daily |-> [time |-> <<"d1">>,
                temperature_2m_max |-> <<Some(40)>>,
                temperature_2m_min |-> <<Some(10)>>,
                precipitation_sum |-> <<Some(5)>>]]

\* A current section without a temperature, no forecast sections.
BodyNoTemp ==
    [current |-> [relative_humidity_2m |-> Some(50), wind_speed_10m |-> Some(3)]]

Bodies == {BodyTypical, BodyCold, BodyNoCurrent, BodyNoTemp}

\* session.get raised (connection error, timeout), or a response arrived.
Responses ==
    {[kind |-> "exception"]}
        \cup {[kind |-> "response", status |-> 500]}
        \cup {[kind |-> "response", status |-> 200, json |-> b] : b \in Bodies}

-----------------------------------------------------------------------------
(* Python helpers.                                                         *)

\* dict.get(key) / dict.get(key, []): None and [] are both <<>>.
Get(d, key) == IF key \in DOMAIN d THEN d[key] ELSE None

\* xs[i] if i < len(xs) else None, for the 1-based i of the model.
At(xs, i) == IF i <= Len(xs) THEN xs[i] ELSE None

\* [x for x in xs if x is not None], the elements unwrapped.
RECURSIVE NotNone(_)
NotNone(xs) ==
    IF xs = <<>> THEN <<>>
    ELSE IF Head(xs) = None THEN NotNone(Tail(xs))
         ELSE <<Head(xs)[1]>> \o NotNone(Tail(xs))

\* min(a, b) and max(a, b)
Min2(a, b) == IF a <= b THEN a ELSE b

Max2(a, b) == IF a >= b THEN a ELSE b

-----------------------------------------------------------------------------
(* DataCollector.                                                          *)

\* fetch_city_weather: the item for a 200 response, None otherwise.
fetch_city_weather(city, resp, at) ==
    IF resp.kind = "exception" THEN None
    ELSE IF resp.status = 200
         THEN Some([city |-> city, data |-> resp.json, collected_at |-> at])
         ELSE None

\* Mutant: a plain INSERT on a table without the UNIQUE constraint.
InsertKeepingOld(table, row) == Append(table, row)

\* Mutant: INSERT OR IGNORE, the row in conflict wins.
InsertOrIgnore(table, row) ==
    IF \E i \in DOMAIN table : table[i].city = row.city THEN table
    ELSE Append(table, row)

\* INSERT OR REPLACE INTO weather_current: city is UNIQUE, so the rows in
\* conflict are deleted and the new row is inserted.
InsertOrReplace(table, row) ==
    Append(SelectSeq(table, LAMBDA r : r.city # row.city), row)

CurrentRow(item) ==
    LET current == item.data.current
    IN [city |-> item.city,
        temperature |-> Get(current, "temperature_2m"),
        humidity |-> Get(current, "relative_humidity_2m"),
        wind_speed |-> Get(current, "wind_speed_10m"),
        collected_at |-> item.collected_at]

\* Mutant: the loop over zip(times, max_temps, min_temps, precips), which
\* stops at the shortest array.
DailyRowsZipped(item) ==
    IF "daily" \notin DOMAIN item.data THEN <<>>
    ELSE LET daily == item.data.daily
             times == Get(daily, "time")
             max_temps == Get(daily, "temperature_2m_max")
             min_temps == Get(daily, "temperature_2m_min")
             precips == Get(daily, "precipitation_sum")
             n == Min2(Min2(Len(times), Len(max_temps)),
                       Min2(Len(min_temps), Len(precips)))
         IN [i \in 1..n |->
                [city |-> item.city, date |-> times[i],
                 temp_max |-> max_temps[i],
                 temp_min |-> min_temps[i],
                 precipitation |-> precips[i],
                 collected_at |-> item.collected_at]]

\* The rows of the loop "for i, date in enumerate(times)" over data['daily'].
DailyRows(item) ==
    IF "daily" \notin DOMAIN item.data THEN <<>>
    ELSE LET daily == item.data.daily
             times == Get(daily, "time")
             max_temps == Get(daily, "temperature_2m_max")
             min_temps == Get(daily, "temperature_2m_min")
             precips == Get(daily, "precipitation_sum")
         IN [i \in 1..Len(times) |->
                [city |-> item.city, date |-> times[i],
                 temp_max |-> At(max_temps, i),
                 temp_min |-> At(min_temps, i),
                 precipitation |-> At(precips, i),
                 collected_at |-> item.collected_at]]

\* The rows of the loop "for i, hour in enumerate(times)" over data['hourly'].
HourlyRows(item) ==
    IF "hourly" \notin DOMAIN item.data THEN <<>>
    ELSE LET hourly == item.data.hourly
             times == Get(hourly, "time")
             temps == Get(hourly, "temperature_2m")
         IN [i \in 1..Len(times) |->
                [city |-> item.city, hour |-> times[i],
                 temperature |-> At(temps, i),
                 collected_at |-> item.collected_at]]

\* Mutant: the forecast tables upserted by (city, date) and (city, hour).
SaveItemDeduplicating(db, item) ==
    LET daily == DailyRows(item)
        hourly == HourlyRows(item)
    IN [current |-> IF "current" \in DOMAIN item.data
                    THEN Append(SelectSeq(db.current, LAMBDA r : r.city # item.city),
                                CurrentRow(item))
                    ELSE db.current,
        daily |-> SelectSeq(db.daily,
                            LAMBDA r : ~\E i \in DOMAIN daily :
                                          /\ daily[i].city = r.city
                                          /\ daily[i].date = r.date) \o daily,
        hourly |-> SelectSeq(db.hourly,
                             LAMBDA r : ~\E i \in DOMAIN hourly :
                                           /\ hourly[i].city = r.city
                                           /\ hourly[i].hour = r.hour) \o hourly]

\* One iteration of _save_to_db's loop, on db = [current, daily, hourly].
SaveItem(db, item) ==
    [current |-> IF "current" \in DOMAIN item.data
                 THEN InsertOrReplace(db.current, CurrentRow(item))
                 ELSE db.current,
     daily |-> db.daily \o DailyRows(item),
     hourly |-> db.hourly \o HourlyRows(item)]

\* _save_to_db: the loop over collected_data, committed as one transaction.
RECURSIVE save_to_db(_, _)
save_to_db(db, collected_data) ==
    IF collected_data = <<>> THEN db
    ELSE save_to_db(SaveItem(db, Head(collected_data)), Tail(collected_data))

-----------------------------------------------------------------------------
(* SQL aggregates over weather_current, GROUP BY city.                     *)

CitiesOf(table) == {table[i].city : i \in DOMAIN table}

RowsOf(table, city) == SelectSeq(table, LAMBDA r : r.city = city)

\* The non-NULL temperatures of a city's rows: aggregates skip NULL.
TempsOf(table, city) ==
    {table[i].temperature[1] :
        i \in {j \in DOMAIN table :
                 table[j].city = city /\ table[j].temperature # None}}

SetMin(S) == CHOOSE x \in S : \A y \in S : x <= y

SetMax(S) == CHOOSE x \in S : \A y \in S : x >= y

\* MIN(temperature): NULL when the group has no non-NULL value.
SqlMin(S) == IF S = {} THEN None ELSE Some(SetMin(S))

SqlMax(S) == IF S = {} THEN None ELSE Some(SetMax(S))

\* ROUND(filled*100.0/total, 1) in tenths of a percent, half away from zero.
RoundPercentTenths(filled, total) == (2 * 1000 * filled + total) \div (2 * total)

-----------------------------------------------------------------------------
(* DataQuality.                                                            *)

\* Mutant: the percentage taken from the humidity column.
CheckCompletenessOfHumidity(table) ==
    [city \in CitiesOf(table) |->
        LET rows == RowsOf(table, city)
            total == Len(rows)
            temp_filled == Len(SelectSeq(rows, LAMBDA r : r.temperature # None))
            humidity_filled == Len(SelectSeq(rows, LAMBDA r : r.humidity # None))
        IN [total_records |-> total,
            temperature_filled |-> temp_filled,
            humidity_filled |-> humidity_filled,
            wind_filled |-> Len(SelectSeq(rows, LAMBDA r : r.wind_speed # None)),
            completeness_percent |-> RoundPercentTenths(humidity_filled, total)]]

\* check_completeness: one entry per city of weather_current;
\* completeness_percent is kept in tenths of a percent.
check_completeness(table) ==
    [city \in CitiesOf(table) |->
        LET rows == RowsOf(table, city)
            total == Len(rows)
            temp_filled == Len(SelectSeq(rows, LAMBDA r : r.temperature # None))
        IN [total_records |-> total,
            temperature_filled |-> temp_filled,
            humidity_filled |-> Len(SelectSeq(rows, LAMBDA r : r.humidity # None)),
            wind_filled |-> Len(SelectSeq(rows, LAMBDA r : r.wind_speed # None)),
            completeness_percent |-> RoundPercentTenths(temp_filled, total)]]

\* Mutant: the cold test with its sign slipped.
OutliersColdSignSlip(min_temp, max_temp, temp_range) ==
    (IF Truthy(temp_range) /\ temp_range[1] > 40
     THEN <<[type |-> "extreme_range", value |-> temp_range[1]]>> ELSE <<>>)
    \o (IF Truthy(min_temp) /\ min_temp[1] > -60
        THEN <<[type |-> "extreme_cold", value |-> min_temp[1]]>> ELSE <<>>)
    \o (IF Truthy(max_temp) /\ max_temp[1] > 60
        THEN <<[type |-> "extreme_heat", value |-> max_temp[1]]>> ELSE <<>>)

\* The three tests of check_outliers on one city's aggregates, in the
\* order the code appends them.
Outliers(min_temp, max_temp, temp_range) ==
    (IF Truthy(temp_range) /\ temp_range[1] > 40
     THEN <<[type |-> "extreme_range", value |-> temp_range[1]]>> ELSE <<>>)
    \o (IF Truthy(min_temp) /\ min_temp[1] < -60
        THEN <<[type |-> "extreme_cold", value |-> min_temp[1]]>> ELSE <<>>)
    \o (IF Truthy(max_temp) /\ max_temp[1] > 60
        THEN <<[type |-> "extreme_heat", value |-> max_temp[1]]>> ELSE <<>>)

\* check_outliers: one entry per city of weather_current.
check_outliers(table) ==
    [city \in CitiesOf(table) |->
        LET temps == TempsOf(table, city)
            min_temp == SqlMin(temps)
            max_temp == SqlMax(temps)
            temp_range == IF temps = {} THEN None
                          ELSE Some(SetMax(temps) - SetMin(temps))
            outliers == Outliers(min_temp, max_temp, temp_range)
        IN [records |-> Len(RowsOf(table, city)),
            min_temp |-> min_temp,
            max_temp |-> max_temp,
            range |-> temp_range,
            anomalies |-> outliers,
            has_issues |-> Len(outliers) > 0]]

\* sum(f(x) for x in S)
RECURSIVE SumOver(_, _)
SumOver(f, S) ==
    IF S = {} THEN 0
    ELSE LET x == CHOOSE y \in S : TRUE
         IN f[x] + SumOver(f, S \ {x})

\* sum(completeness_scores) / len(completeness_scores) if completeness_scores
\* else 0, as the fraction num/den of a percent.
avg_completeness(completeness) ==
    LET n == Cardinality(DOMAIN completeness)
    IN IF n = 0 THEN [num |-> 0, den |-> 1]
       ELSE [num |-> SumOver([c \in DOMAIN completeness |->
                                 completeness[c].completeness_percent],
                             DOMAIN completeness),
             den |-> 10 * n]

\* sum(len(a['anomalies']) for a in anomalies.values())
anomaly_count(anomalies) ==
    SumOver([c \in DOMAIN anomalies |-> Len(anomalies[c].anomalies)],
            DOMAIN anomalies)

\* Mutant: the score without the clamp.
QualityScoreUnclamped(avg, count) ==
    [num |-> avg.num - (count * 2) * avg.den, den |-> avg.den]

\* quality_score = avg - count*2, then max(0, min(100, quality_score)),
\* as a fraction over avg's denominator.
quality_score(avg, count) ==
    [num |-> Max2(0, Min2(100 * avg.den, avg.num - (count * 2) * avg.den)),
     den |-> avg.den]

\* The rows "WHERE x < lo OR x > hi" selects: a NULL satisfies neither test.
OutOfRange(table, field, lo, hi) ==
    SelectSeq(table, LAMBDA r : r[field] # None /\ (r[field][1] < lo \/ r[field][1] > hi))

\* "SELECT city, COUNT(*) ... WHERE ..." has no GROUP BY: it yields one row,
\* the count of all matching rows beside the city of an arbitrarily chosen
\* matching row, or (NULL, 0) when no row matches.  The set of the rows the
\* query can yield.
CityAndCount(rows) ==
    IF rows = <<>> THEN {[city |-> None, invalid |-> 0]}
    ELSE {[city |-> Some(c), invalid |-> Len(rows)] : c \in CitiesOf(rows)}

\* "if city not in issues: issues[city] = []" and "if invalid > 0:
\* issues[city].append(...)": issues is the list of its (key, problems)
\* entries in insertion order; a problem is the field and the count of its
\* message.
AddIssue(issues, row, field) ==
    LET problem == IF row.invalid > 0
                   THEN <<[field |-> field, invalid |-> row.invalid]>> ELSE <<>>
    IN IF \E i \in DOMAIN issues : issues[i].key = row.city
       THEN [i \in DOMAIN issues |->
                IF issues[i].key = row.city
                THEN [issues[i] EXCEPT !.problems = @ \o problem]
                ELSE issues[i]]
       ELSE Append(issues, [key |-> row.city, problems |-> problem])

\* check_validity: the values it can return; 'validity_check' is the issue
\* map when it is non-empty and the text "no problems found" otherwise.
check_validity(table) ==
    {LET issues == AddIssue(AddIssue(<<>>, t, "temperature"), h, "humidity")
     IN [validity_check |-> IF issues # <<>>
                            THEN [kind |-> "issues", issues |-> issues]
                            ELSE [kind |-> "no_problems"]] :
        t \in CityAndCount(OutOfRange(table, "temperature", -50, 50)),
        h \in CityAndCount(OutOfRange(table, "humidity", 0, 100))}

\* validity is what check_validity returned.
generate_quality_report(table, at, validity) ==
    LET completeness == check_completeness(table)
        anomalies == check_outliers(table)
        avg == avg_completeness(completeness)
        count == anomaly_count(anomalies)
    IN [report_date |-> at,
        completeness |-> completeness,
        anomalies |-> anomalies,
        validity |-> validity,
        quality_score |-> quality_score(avg, count),
        metrics |-> [avg_completeness |-> avg,
                     total_anomalies |-> count,
                     cities_analyzed |-> Cardinality(DOMAIN completeness)]]

-----------------------------------------------------------------------------
(* DataAnalyzer.  An average is kept as the fraction [num, den]; the       *)
(* comparisons are the exact ones (the code compares floats).              *)

\* The dates of the bodies in ascending order: ISO dates sort as text.
Dates == <<"d1", "d2">>

\* The model's cities are listed alphabetically: "ORDER BY city" and the
\* groups of "GROUP BY city" come out in this order.
SortedCities(S) == SelectSeq(DEFAULT_CITIES, LAMBDA c : c \in S)

RECURSIVE Flatten(_)
Flatten(seqs) == IF seqs = <<>> THEN <<>> ELSE Head(seqs) \o Flatten(Tail(seqs))

\* SELECT ... FROM weather_daily WHERE city = c ORDER BY date; rows of one
\* date are taken in rowid order (SQLite leaves the order of ties open).
DailyByDate(table, c) ==
    Flatten([d \in DOMAIN Dates |->
                SelectSeq(table, LAMBDA r : r.city = c /\ r.date = Dates[d])])

\* avg_t = (max_t + min_t) / 2 if max_t and min_t else None
TrendEntry(row) ==
    [date |-> row.date, max |-> row.temp_max, min |-> row.temp_min,
     avg |-> IF Truthy(row.temp_max) /\ Truthy(row.temp_min)
             THEN Some([num |-> row.temp_max[1] + row.temp_min[1], den |-> 2])
             ELSE None]

analyze_temperature_trends(table) ==
    [c \in CitiesOf(table) |->
        LET rows == DailyByDate(table, c)
        IN [i \in DOMAIN rows |-> TrendEntry(rows[i])]]

RECURSIVE SumSeq(_)
SumSeq(xs) == IF xs = <<>> THEN 0 ELSE Head(xs) + SumSeq(Tail(xs))

\* The rows of "WHERE precipitation > 0" (NULL > 0 is not true).
Rainy(table) ==
    SelectSeq(table, LAMBDA r : r.precipitation # None /\ r.precipitation[1] > 0)

analyze_precipitation(table) ==
    LET rainy == Rainy(table)
    IN [c \in CitiesOf(rainy) |->
           LET rows == DailyByDate(rainy, c)
           IN [total |-> SumSeq([i \in DOMAIN rows |-> rows[i].precipitation[1]]),
               days |-> Len(rows),
               records |-> [i \in DOMAIN rows |->
                               [date |-> rows[i].date,
                                amount |-> rows[i].precipitation[1]]]]]

\* AVG(temp_max) of a city's rows: NULL (None) without a non-NULL value.
AvgMax(table, c) ==
    LET xs == NotNone([i \in DOMAIN RowsOf(table, c) |-> RowsOf(table, c)[i].temp_max])
    IN IF xs = <<>> THEN None ELSE Some([num |-> SumSeq(xs), den |-> Len(xs)])

\* Truthiness of a nullable float: None and 0.0 are falsy.
TruthyAvg(a) == a # None /\ a[1].num # 0

\* MIN(temp_min) of a city's rows.
MinMin(table, c) ==
    LET xs == NotNone([i \in DOMAIN RowsOf(table, c) |-> RowsOf(table, c)[i].temp_min])
    IN IF xs = <<>> THEN None ELSE Some(SetMin({xs[i] : i \in DOMAIN xs}))

\* The first loop of generate_insights: heat and frost, city by city.
TemperatureInsights(table) ==
    LET cities == SortedCities(CitiesOf(table))
        of(c) ==
            (IF TruthyAvg(AvgMax(table, c))
                /\ AvgMax(table, c)[1].num > 25 * AvgMax(table, c)[1].den
             THEN <<[type |-> "temperature", city |-> c, severity |-> "HIGH",
                     message |-> "heat"]>>
             ELSE <<>>)
            \o (IF Truthy(MinMin(table, c)) /\ MinMin(table, c)[1] < -10
                THEN <<[type |-> "temperature", city |-> c, severity |-> "HIGH",
                        message |-> "frost"]>>
                ELSE <<>>)
    IN Flatten([i \in DOMAIN cities |-> of(cities[i])])

\* The second loop: total precipitation of the rainy days above 50.
PrecipitationInsights(table) ==
    LET rainy == Rainy(table)
        cities == SortedCities(CitiesOf(rainy))
        total(c) == SumSeq([i \in DOMAIN RowsOf(rainy, c) |->
                               RowsOf(rainy, c)[i].precipitation[1]])
    IN Flatten([i \in DOMAIN cities |->
                   IF total(cities[i]) # 0 /\ total(cities[i]) > 50
                   THEN <<[type |-> "precipitation", city |-> cities[i],
                           severity |-> "MEDIUM", message |-> "rain"]>>
                   ELSE <<>>])

RECURSIVE Product(_)
Product(xs) == IF xs = <<>> THEN 1 ELSE Head(xs) * Product(Tail(xs))

\* The third loop: temps = [t[1] for t in cities_data if t[1]],
\* avg_global = sum(temps) / len(temps), and for each city with a truthy
\* average abs(city_temp - avg_global) > 10.  The difference is taken over
\* the common denominator len(temps) * P, P the product of the row counts.
ComparisonInsights(table) ==
    LET cities_data == SortedCities(CitiesOf(table))
        city_temp(c) == AvgMax(table, c)
        temps == SelectSeq(cities_data, LAMBDA c : TruthyAvg(city_temp(c)))
        P == Product([i \in DOMAIN temps |-> city_temp(temps[i])[1].den])
        scaled(c) == city_temp(c)[1].num * (P \div city_temp(c)[1].den)
        total == SumSeq([i \in DOMAIN temps |-> scaled(temps[i])])
        diff(c) == Len(temps) * scaled(c) - total
        abs(x) == IF x < 0 THEN -x ELSE x
    IN IF temps = <<>> THEN <<>>
       ELSE Flatten([i \in DOMAIN cities_data |->
               LET c == cities_data[i]
               IN IF TruthyAvg(city_temp(c)) /\ abs(diff(c)) > 10 * Len(temps) * P
                  THEN <<[type |-> "climate_comparison", city |-> c,
                          severity |-> "LOW",
                          message |-> IF diff(c) > 0 THEN "warmer" ELSE "colder"]>>
                  ELSE <<>>])

generate_insights(table) ==
    TemperatureInsights(table) \o PrecipitationInsights(table)
        \o ComparisonInsights(table)

-----------------------------------------------------------------------------
(* main.py: the orchestrator.                                              *)

Flags == {"collect", "analyze", "quality", "visualize", "all"}

Args == [Flags -> BOOLEAN]

\* Mutant: no default, only --all runs everything.
RunAllOnlyWhenAsked(a) == a["all"]

\* run_all = args.all or (not args.collect and not args.analyze and
\*                        not args.quality and not args.visualize)
run_all(a) ==
    a["all"] \/ (~a["collect"] /\ ~a["analyze"] /\ ~a["quality"] /\ ~a["visualize"])

\* The test in front of each stage: "if run_all or args.<stage>".
Selected(a, stage) == run_all(a) \/ a[stage]

\* run_collection's city list: the default cities matching --cities, or all
\* of them when nothing matches or no filter is given.  matched is the set
\* of default cities some given name is a substring of.
FilterCities(matched) ==
    LET cities == SelectSeq(DEFAULT_CITIES, LAMBDA c : c \in matched)
    IN IF cities = <<>> THEN DEFAULT_CITIES ELSE cities

File(kind, city, at) == [kind |-> kind, city |-> city, timestamp |-> at]

Init ==
    /\ schema = FALSE
    /\ weather_current = <<>>
    /\ weather_daily = <<>>
    /\ weather_hourly = <<>>
    /\ results_dir = {}
    /\ now = 0
    /\ second = 0
    /\ stage_runs = 0
    /\ pc = "idle"
    /\ args = [f \in Flags |-> FALSE]
    /\ tasks = <<>>
    /\ collector_obj = None
    /\ analysis_report = None
    /\ quality_report = None
    /\ viz_files = None
    /\ MATPLOTLIB_AVAILABLE = None
    /\ exit_code = None
    /\ started = <<>>
    /\ completed = <<>>
    /\ raised = None
    /\ interrupted = FALSE
    /\ lastOk = [c \in CityNames |-> None]
    /\ lastCurrent = [c \in CityNames |-> None]
    /\ hist = [c \in CityNames |-> <<>>]

\* python main.py --collect
CollectOnly == [f \in Flags |-> f = "collect"]

\* A new process runs main with flags from argset, ticks seconds after the
\* last one: the arguments are parsed, the locals are unset.  At most
\* stage_bound of the runs have flags other than --collect alone.
Start(argset, ticks, stage_bound) ==
    /\ pc \in {"idle", "done"}
    /\ now < MaxRuns
    /\ now' = now + 1
    /\ \E t \in ticks : second' = second + t
    /\ \E a \in argset :
          /\ a # CollectOnly => stage_runs < stage_bound
          /\ args' = a
          /\ stage_runs' = IF a # CollectOnly THEN stage_runs + 1 ELSE stage_runs
    /\ pc' = "collect"
    /\ tasks' = <<>>
    /\ collector_obj' = None
    /\ analysis_report' = None
    /\ quality_report' = None
    /\ viz_files' = None
    /\ MATPLOTLIB_AVAILABLE' = None
    /\ exit_code' = None
    /\ started' = <<>>
    /\ completed' = <<>>
    /\ raised' = None
    /\ interrupted' = FALSE
    /\ UNCHANGED <<store, results_dir, history>>

\* The stage is not selected: main goes on to the next test.
Skip(stage, next) ==
    /\ pc = stage
    /\ ~Selected(args, stage)
    /\ pc' = next
    /\ UNCHANGED <<store, results_dir, now, second, stage_runs, args, tasks, collector_obj,
                   analysis_report, quality_report, viz_files, MATPLOTLIB_AVAILABLE, exit_code,
                   started, completed, raised, interrupted, history>>

\* Mutant: the error is logged and main returns 0.
RaiseReturningZero(stage) ==
    /\ exit_code' = Some(0)
    /\ raised' = Some(stage)
    /\ started' = Append(started, stage)
    /\ pc' = "done"
    /\ UNCHANGED <<store, results_dir, now, second, stage_runs, args, tasks, collector_obj,
                   analysis_report, quality_report, viz_files, completed,
                   interrupted, history>>

\* The stage raised: "except Exception" logs and main returns 1.  What the
\* stage did to chart_generator's global before it raised is the caller's.
Raise(stage) ==
    /\ exit_code' = Some(1)
    /\ raised' = Some(stage)
    /\ started' = Append(started, stage)
    /\ pc' = "done"
    /\ UNCHANGED <<store, results_dir, now, second, stage_runs, args, tasks, collector_obj,
                   analysis_report, quality_report, viz_files, completed,
                   interrupted, history>>

\* run_collection up to the gather: DataCollector() creates the tables,
\* the city list is chosen, one request per city is issued.
RunCollection ==
    /\ pc = "collect"
    /\ Selected(args, "collect")
    /\ schema' = TRUE
    /\ \E matched \in SUBSET CityNames :
          LET cities == FilterCities(matched)
          IN tasks' = [i \in 1..Len(cities) |->
                          [city |-> cities[i], attempts |-> 1, done |-> FALSE,
                           succeeded |-> FALSE, result |-> None]]
    /\ started' = Append(started, "collect")
    /\ pc' = "fetching"
    /\ UNCHANGED <<weather_current, weather_daily, weather_hourly, results_dir,
                   now, second, stage_runs, args, collector_obj, analysis_report, quality_report,
                   viz_files, MATPLOTLIB_AVAILABLE, exit_code, completed, raised, interrupted, history>>

\* What the API did: a request succeeds when a response with status 200 arrives.
Succeeded(resp) == resp.kind = "response" /\ resp.status = 200

\* Mutant: the results gathered in completion order (asyncio.as_completed):
\* a result lands in the first free slot.
FetchReturnAsCompleted(i, resp) ==
    LET slot == CHOOSE j \in DOMAIN tasks :
                    /\ ~tasks[j].done
                    /\ \A k \in DOMAIN tasks : ~tasks[k].done => j <= k
    IN [tasks EXCEPT ![slot] = [@ EXCEPT !.done = TRUE,
                                        !.succeeded = Succeeded(resp),
                                        !.result = fetch_city_weather(tasks[i].city,
                                                                      resp, now)]]

\* fetch_city_weather of task i returns: the requests complete in any order.
FetchReturn(i, resp) ==
    [tasks EXCEPT ![i] = [@ EXCEPT !.done = TRUE,
                                   !.succeeded = Succeeded(resp),
                                   !.result = fetch_city_weather(tasks[i].city, resp, now)]]

Fetch ==
    /\ pc = "fetching"
    /\ \E i \in DOMAIN tasks, resp \in Responses :
          /\ ~tasks[i].done
          /\ tasks' = FetchReturn(i, resp)
    /\ UNCHANGED <<store, results_dir, now, second, stage_runs, pc, args, collector_obj,
                   analysis_report, quality_report, viz_files, MATPLOTLIB_AVAILABLE, exit_code,
                   started, completed, raised, interrupted, history>>

\* Mutant: one failed request empties the batch.
CollectedUnlessAnyFailed(ts) ==
    IF \E i \in DOMAIN ts : ts[i].result = None THEN <<>>
    ELSE [i \in DOMAIN ts |-> ts[i].result[1]]

\* collected = [r for r in results if r is not None], results in task order.
Collected(ts) == NotNone([i \in DOMAIN ts |-> ts[i].result])

\* The history variables after the items are saved.
RECURSIVE Record(_, _)
Record(h, items) ==
    IF items = <<>> THEN h
    ELSE LET item == Head(items)
             c == item.city
             nd == IF "daily" \in DOMAIN item.data
                   THEN Len(Get(item.data.daily, "time")) ELSE 0
             nh == IF "hourly" \in DOMAIN item.data
                   THEN Len(Get(item.data.hourly, "time")) ELSE 0
         IN Record([lastOk |-> [h.lastOk EXCEPT ![c] = Some(item)],
                    lastCurrent |-> IF "current" \in DOMAIN item.data
                                    THEN [h.lastCurrent EXCEPT ![c] = Some(item)]
                                    ELSE h.lastCurrent,
                    hist |-> [h.hist EXCEPT ![c] = Append(@, <<nd, nh>>)]],
                   Tail(items))

\* gather returned: collect_batch filters the results, saves them and
\* returns them; run_collection hands them to main.
CollectBatchReturn ==
    /\ pc = "fetching"
    /\ \A i \in DOMAIN tasks : tasks[i].done
    /\ LET collected == Collected(tasks)
           db == save_to_db([current |-> weather_current, daily |-> weather_daily,
                             hourly |-> weather_hourly], collected)
           h == Record([lastOk |-> lastOk, lastCurrent |-> lastCurrent,
                        hist |-> hist], collected)
       IN /\ weather_current' = db.current
          /\ weather_daily' = db.daily
          /\ weather_hourly' = db.hourly
          /\ collector_obj' = Some(collected)
          /\ lastOk' = h.lastOk
          /\ lastCurrent' = h.lastCurrent
          /\ hist' = h.hist
    /\ completed' = Append(completed, "collect")
    /\ pc' = "analyze"
    /\ UNCHANGED <<schema, results_dir, now, second, stage_runs, args, tasks, analysis_report,
                   quality_report, viz_files, MATPLOTLIB_AVAILABLE, exit_code, started, raised,
                   interrupted>>

\* A query on a database file without tables raises
\* sqlite3.OperationalError (no such table); sqlite3.connect itself creates
\* an empty file and no table.
NoSuchTable == ~schema

\* analyze_temperature_trends' first query is on weather_daily.
AnalysisRaises == NoSuchTable

\* Mutant: the average taken without the guard for an empty list
\* (ZeroDivisionError when no city is stored).
QualityRaisesOnEmpty == NoSuchTable \/ weather_current = <<>>

\* check_completeness' first query is on weather_current; with the tables
\* present no check raises (an empty table gives avg_completeness 0).
QualityRaises == NoSuchTable

\* The chart queries fail inside generate_html_dashboard (after
\* chart_generator was imported), which catches the error and returns "";
\* generate_text_report's _get_stats is not guarded.
VisualizationRaises == NoSuchTable

\* run_analysis returns: the three analyses have read weather_daily, the
\* report is written to results/analytics_<timestamp>.json.
AnalysisReturns ==
    /\ collector_obj' = IF collector_obj = None THEN Some(<<>>) ELSE collector_obj
    /\ analysis_report' =
          Some([report_date |-> now,
                temperature_analysis |-> analyze_temperature_trends(weather_daily),
                precipitation_analysis |-> analyze_precipitation(weather_daily),
                insights |-> generate_insights(weather_daily)])
    /\ results_dir' = results_dir \cup {File("analytics", "", second)}
    /\ started' = Append(started, "analyze")
    /\ completed' = Append(completed, "analyze")
    /\ pc' = "quality"
    /\ UNCHANGED <<store, now, second, stage_runs, args, tasks, quality_report, viz_files, MATPLOTLIB_AVAILABLE,
                   exit_code, raised, interrupted, history>>

RunAnalysis ==
    /\ pc = "analyze"
    /\ Selected(args, "analyze")
    /\ IF AnalysisRaises
       THEN Raise("analyze") /\ UNCHANGED MATPLOTLIB_AVAILABLE
       ELSE AnalysisReturns

\* Mutant: the completeness check deletes the rows it finds incomplete.
QualityCheckPruning ==
    /\ weather_current' = SelectSeq(weather_current, LAMBDA r : r.temperature # None)
    /\ \E validity \in check_validity(weather_current) :
          quality_report' = Some(generate_quality_report(weather_current, now, validity))
    /\ results_dir' = results_dir \cup {File("quality_report", "", second)}
    /\ started' = Append(started, "quality")
    /\ completed' = Append(completed, "quality")
    /\ pc' = "visualize"
    /\ UNCHANGED <<schema, weather_daily, weather_hourly, now, second, stage_runs, args,
                   tasks, collector_obj, analysis_report, viz_files, MATPLOTLIB_AVAILABLE, exit_code,
                   raised, interrupted, history>>

\* run_quality_check returns: the checks have read weather_current, the
\* report is written to results/quality_report_<timestamp>.json.
QualityCheckReturns ==
    /\ \E validity \in check_validity(weather_current) :
          quality_report' = Some(generate_quality_report(weather_current, now, validity))
    /\ results_dir' = results_dir \cup {File("quality_report", "", second)}
    /\ started' = Append(started, "quality")
    /\ completed' = Append(completed, "quality")
    /\ pc' = "visualize"
    /\ UNCHANGED <<store, now, second, stage_runs, args, tasks, collector_obj,
                   analysis_report, viz_files, MATPLOTLIB_AVAILABLE, exit_code, raised, interrupted,
                   history>>

RunQualityCheck ==
    /\ pc = "quality"
    /\ Selected(args, "quality")
    /\ IF QualityRaises
       THEN Raise("quality") /\ UNCHANGED MATPLOTLIB_AVAILABLE
       ELSE QualityCheckReturns

\* Mutant: the availability test inverted.
GenerateHourlyChartsInverted(available, table, at) ==
    IF available THEN <<>>
    ELSE LET ok(c) == /\ c \in CitiesOf(table)
                      /\ \A i \in DOMAIN table :
                            table[i].city = c => table[i].temperature # None
             cities == SelectSeq(DEFAULT_CITIES, ok)
         IN [i \in DOMAIN cities |-> File("hourly", cities[i], at)]

\* generate_hourly_charts: one chart per city of weather_hourly, in city
\* order; a chart whose rendering raises is logged and left out (min() and
\* the annotation format fail on a NULL temperature).
generate_hourly_charts(available, table, at) ==
    IF ~available THEN <<>>
    ELSE LET ok(c) == /\ c \in CitiesOf(table)
                      /\ \A i \in DOMAIN table :
                            table[i].city = c => table[i].temperature # None
             cities == SelectSeq(DEFAULT_CITIES, ok)
         IN [i \in DOMAIN cities |-> File("hourly", cities[i], at)]

\* generate_daily_charts: one chart per city of weather_daily.
generate_daily_charts(available, table, at) ==
    IF ~available THEN <<>>
    ELSE LET cities == SelectSeq(DEFAULT_CITIES, LAMBDA c : c \in CitiesOf(table))
         IN [i \in DOMAIN cities |-> File("daily", cities[i], at)]

FilesOf(charts) == {charts[i] : i \in DOMAIN charts}

\* generate_html_dashboard's result: the first chart, or "" (None here).
Dashboard(hourly_charts, daily_charts) ==
    IF hourly_charts # <<>> THEN Some(hourly_charts[1])
    ELSE IF daily_charts # <<>> THEN Some(daily_charts[1])
         ELSE None

\* run_visualization returns: the charts (when matplotlib could be
\* imported), then the text report.
VisualizationReturns ==
    /\ \E imported \in BOOLEAN :
          LET hourly_charts == generate_hourly_charts(imported, weather_hourly, second)
              daily_charts == generate_daily_charts(imported, weather_daily, second)
              text_file == File("report", "", second)
          IN /\ MATPLOTLIB_AVAILABLE' = Some(imported)
             /\ results_dir' = results_dir \cup FilesOf(hourly_charts)
                                  \cup FilesOf(daily_charts) \cup {text_file}
             /\ viz_files' = Some([html |-> Dashboard(hourly_charts, daily_charts),
                                   text |-> text_file])
    /\ started' = Append(started, "visualize")
    /\ completed' = Append(completed, "visualize")
    /\ pc' = "summary"
    /\ UNCHANGED <<store, now, second, stage_runs, args, tasks, collector_obj,
                   analysis_report, quality_report, exit_code, raised,
                   interrupted, history>>

RunVisualization ==
    /\ pc = "visualize"
    /\ Selected(args, "visualize")
    /\ IF VisualizationRaises
       THEN /\ Raise("visualize")
            /\ \E imported \in BOOLEAN : MATPLOTLIB_AVAILABLE' = Some(imported)
       ELSE VisualizationReturns

\* The summary is logged and main returns 0.
Finish ==
    /\ pc = "summary"
    /\ exit_code' = Some(0)
    /\ pc' = "done"
    /\ UNCHANGED <<store, results_dir, now, second, stage_runs, args, tasks, collector_obj,
                   analysis_report, quality_report, viz_files, MATPLOTLIB_AVAILABLE, started, completed,
                   raised, interrupted, history>>

\* KeyboardInterrupt inside main's try block: main returns 130.  During the
\* batch the gather is cancelled and nothing has been saved yet.
Interrupt ==
    /\ pc \in {"collect", "fetching", "analyze", "quality", "visualize", "summary"}
    /\ exit_code' = Some(130)
    /\ interrupted' = TRUE
    /\ pc' = "done"
    /\ UNCHANGED <<store, results_dir, now, second, stage_runs, args, tasks, collector_obj, analysis_report,
                   quality_report, viz_files, MATPLOTLIB_AVAILABLE, started, completed, raised, history>>

Next ==
    \/ Start(Args, {1}, MaxStageRuns)
    \/ RunCollection
    \/ Skip("collect", "analyze")
    \/ Fetch
    \/ CollectBatchReturn
    \/ RunAnalysis
    \/ Skip("analyze", "quality")
    \/ RunQualityCheck
    \/ Skip("quality", "visualize")
    \/ RunVisualization
    \/ Skip("visualize", "summary")
    \/ Finish
    \/ Interrupt

Spec == Init /\ [][Next]_vars

\* Runs of "main.py --collect" only: the Collector fills the store, the
\* other stages are skipped.
NextCollect ==
    \/ Start({CollectOnly}, {1}, MaxStageRuns)
    \/ RunCollection
    \/ Fetch
    \/ CollectBatchReturn
    \/ Skip("analyze", "quality")
    \/ Skip("quality", "visualize")
    \/ Skip("visualize", "summary")
    \/ Finish
    \/ Interrupt

SpecCollect == Init /\ [][NextCollect]_vars

\* python main.py, and python main.py with one stage flag.
NoFlags == [f \in Flags |-> FALSE]

Readers == {"analyze", "quality", "visualize"}

Only(s) == [f \in Flags |-> f = s]

\* Runs of the whole pipeline and of single reader stages, a run starting
\* in the second the previous one ended in, or in the next one.
NextArtifacts ==
    \/ Start({NoFlags} \cup {Only(s) : s \in Readers}, {0, 1}, MaxRuns)
    \/ RunCollection
    \/ Skip("collect", "analyze")
    \/ Fetch
    \/ CollectBatchReturn
    \/ RunAnalysis
    \/ Skip("analyze", "quality")
    \/ RunQualityCheck
    \/ Skip("quality", "visualize")
    \/ RunVisualization
    \/ Skip("visualize", "summary")
    \/ Finish
    \/ Interrupt

SpecArtifacts == Init /\ [][NextArtifacts]_vars

-----------------------------------------------------------------------------
(* Properties.                                                             *)

Range(seq) == {seq[i] : i \in DOMAIN seq}

IsPrefix(s, t) == Len(s) <= Len(t) /\ SubSeq(t, 1, Len(s)) = s

RECURSIVE SumField(_, _)
SumField(pairs, k) ==
    IF pairs = <<>> THEN 0 ELSE Head(pairs)[k] + SumField(Tail(pairs), k)

\* The longest time array a body carries.
MaxTimes == 2

\* C1: after any sequence of collection runs the current-observation table
\* holds at most one row per city.
C1_OneRowPerCity ==
    \A c \in CityNames : Len(RowsOf(weather_current, c)) <= 1

\* A city observed in the first run and observed again in the second: its
\* single row is the second run's.
C1_Witness ==
    \E c \in CityNames :
        /\ Len(hist[c]) = 2
        /\ \E i \in DOMAIN weather_daily :
              /\ weather_daily[i].city = c
              /\ weather_daily[i].collected_at = 1
              /\ weather_daily[i].date = "d2"
        /\ lastCurrent[c] # None
        /\ lastCurrent[c][1].collected_at = 2
        /\ Len(RowsOf(weather_current, c)) = 1

\* C2: the daily and hourly rows of a city are the rows of all its saved
\* payloads: their number is the sum of the payloads' time-array lengths,
\* k*n and k*m after k payloads of n dates and m hours, and a step never
\* removes or rewrites a stored row.
C2_Counts ==
    \A c \in CityNames :
        /\ Len(RowsOf(weather_daily, c)) = SumField(hist[c], 1)
        /\ Len(RowsOf(weather_hourly, c)) = SumField(hist[c], 2)
        /\ \A n, m \in 0..MaxTimes :
              (\A k \in DOMAIN hist[c] : hist[c][k] = <<n, m>>)
                  => /\ Len(RowsOf(weather_daily, c)) = Len(hist[c]) * n
                     /\ Len(RowsOf(weather_hourly, c)) = Len(hist[c]) * m

C2_AppendOnly ==
    /\ []C2_Counts
    /\ [][/\ IsPrefix(weather_daily, weather_daily')
          /\ IsPrefix(weather_hourly, weather_hourly')]_vars

\* Two saved payloads of two dates and two hours each: four rows of each kind.
C2_Witness ==
    \E c \in CityNames :
        /\ hist[c] = << <<2, 2>>, <<2, 2>> >>
        /\ Len(RowsOf(weather_daily, c)) = 4
        /\ Len(RowsOf(weather_hourly, c)) = 4

RowsAt(table, c, at) ==
    SelectSeq(table, LAMBDA r : r.city = c /\ r.collected_at = at)

TimesOf(data, section) ==
    IF section \in DOMAIN data THEN Get(data[section], "time") ELSE <<>>

\* The rows of this run (collected_at = now) are those of the item.
Stored(item) ==
    /\ Len(RowsAt(weather_daily, item.city, now)) = Len(TimesOf(item.data, "daily"))
    /\ Len(RowsAt(weather_hourly, item.city, now)) = Len(TimesOf(item.data, "hourly"))
    /\ "current" \in DOMAIN item.data
          => Len(RowsAt(weather_current, item.city, now)) = 1

NothingStored(c) ==
    /\ RowsAt(weather_current, c, now) = <<>>
    /\ RowsAt(weather_daily, c, now) = <<>>
    /\ RowsAt(weather_hourly, c, now) = <<>>

\* C3: every city is requested once; when all requests have returned the
\* batch goes on to save, whatever failed; the returned list is exactly the
\* cities whose request succeeded, in task order, each stored; a city whose
\* request failed has written no row.
C3_FailureIsolated ==
    /\ \A i \in DOMAIN tasks : tasks[i].attempts = 1
    /\ (pc = "fetching" /\ \A i \in DOMAIN tasks : tasks[i].done)
          => ENABLED CollectBatchReturn
    /\ "collect" \in Range(completed) =>
          /\ collector_obj # None
          /\ LET returned == collector_obj[1]
                 ok == SelectSeq(tasks, LAMBDA t : t.succeeded)
             IN /\ [j \in DOMAIN returned |-> returned[j].city]
                      = [j \in DOMAIN ok |-> ok[j].city]
                /\ \A j \in DOMAIN returned : Stored(returned[j])
          /\ \A i \in DOMAIN tasks :
                ~tasks[i].succeeded => NothingStored(tasks[i].city)

\* A batch of two cities: one request failed, the other city is returned
\* and its rows are stored.
C3_Witness ==
    /\ "collect" \in Range(completed)
    /\ Len(tasks) = 2
    /\ \E i, j \in DOMAIN tasks :
          /\ ~tasks[i].succeeded
          /\ tasks[j].succeeded
          /\ Len(collector_obj[1]) = 1
          /\ collector_obj[1][1].city = tasks[j].city
          /\ Len(RowsAt(weather_daily, tasks[j].city, now)) = 2
          /\ NothingStored(tasks[i].city)

\* C4 as stated: the row of a city is that of its most recent successful
\* request.
C4_LatestSuccess ==
    \A c \in CityNames :
        lastOk[c] # None =>
            /\ "current" \in DOMAIN lastOk[c][1].data
            /\ RowsOf(weather_current, c) = <<CurrentRow(lastOk[c][1])>>

C4_RowIsLatest ==
    \A c \in CityNames :
        RowsOf(weather_current, c) =
            IF lastCurrent[c] = None THEN <<>>
            ELSE <<CurrentRow(lastCurrent[c][1])>>

\* C4, amended: the row of a city is that of its most recent successful
\* request whose payload has a current section, and it changes only when
\* the batch saves such a payload for the city.
C4_LatestWithCurrent ==
    /\ []C4_RowIsLatest
    /\ [][\A c \in CityNames :
            RowsOf(weather_current, c)' # RowsOf(weather_current, c)
                => /\ pc = "fetching"
                   /\ \E i \in DOMAIN tasks :
                         /\ tasks[i].city = c
                         /\ tasks[i].succeeded
                         /\ "current" \in DOMAIN tasks[i].result[1].data]_vars

\* Second run: one city's row was replaced by the new observation, the
\* other city's request failed and its row is still the first run's.
C4_Witness ==
    /\ now = 2
    /\ "collect" \in Range(completed)
    /\ \E c, d \in CityNames :
          /\ RowsOf(weather_current, c) # <<>>
          /\ RowsOf(weather_current, c)[1].collected_at = 2
          /\ RowsOf(weather_current, c)[1].temperature = Some(-70)
          /\ \E i \in DOMAIN weather_daily :
                /\ weather_daily[i].city = c
                /\ weather_daily[i].collected_at = 1
                /\ weather_daily[i].temp_max = Some(30)
          /\ \E i \in DOMAIN tasks : tasks[i].city = d /\ ~tasks[i].succeeded
          /\ RowsOf(weather_current, d) # <<>>
          /\ RowsOf(weather_current, d)[1].collected_at = 1

Stages == <<"collect", "analyze", "quality", "visualize">>

StageIndex(s) == CHOOSE i \in DOMAIN Stages : Stages[i] = s

\* The stages of seq follow the fixed order, none twice.
InOrder(seq) ==
    \A i, j \in DOMAIN seq : i < j => StageIndex(seq[i]) < StageIndex(seq[j])

\* The selection as the specification words it: the stage's own flag, or
\* --all, or no stage flag at all.
Chosen(s) ==
    args[s] \/ args["all"] \/ \A t \in Range(Stages) : ~args[t]

\* C5 as stated: when main has returned, the stages that ran are exactly
\* the selected ones, in the fixed order.
C5_RanIffSelected ==
    /\ InOrder(started)
    /\ pc = "done" => \A s \in Range(Stages) : s \in Range(started) <=> Chosen(s)

\* C5, amended: the stages run in the fixed order, each at most once, and
\* only selected stages run; a selected stage that did not run was cut off
\* by an earlier stage's error or by an interrupt.
C5_StagesInOrder ==
    /\ InOrder(started)
    /\ \A s \in Range(started) : Chosen(s)
    /\ pc = "done" =>
          \A s \in Range(Stages) :
              (Chosen(s) /\ s \notin Range(started))
                  => (raised # None \/ interrupted)
    /\ (pc = "done" /\ raised = None /\ ~interrupted) =>
          \A s \in Range(Stages) : s \in Range(started) <=> Chosen(s)

\* Two flags given: the two stages ran in pipeline order, the others did not.
C5_Witness ==
    /\ pc = "done"
    /\ exit_code = Some(0)
    /\ args = [f \in Flags |-> f \in {"visualize", "collect"}]
    /\ started = <<"collect", "visualize">>

\* What a completed stage leaves behind in this run.
EffectsKept(s) ==
    CASE s = "collect" ->
            /\ collector_obj # None
            /\ \A j \in DOMAIN collector_obj[1] : Stored(collector_obj[1][j])
      [] s = "analyze" -> File("analytics", "", second) \in results_dir
      [] s = "quality" -> File("quality_report", "", second) \in results_dir
      [] s = "visualize" -> File("report", "", second) \in results_dir

C7_ReadersKeepTables ==
    [][/\ pc \in {"analyze", "quality", "visualize", "summary"}
            => UNCHANGED <<weather_current, weather_daily, weather_hourly>>
       /\ <<weather_current, weather_daily, weather_hourly>>'
                # <<weather_current, weather_daily, weather_hourly>>
            => pc = "fetching"
       /\ IsPrefix(weather_daily, weather_daily')
       /\ IsPrefix(weather_hourly, weather_hourly')
       /\ \A i \in DOMAIN weather_current :
             weather_current[i] \notin Range(weather_current')
                => \E j \in DOMAIN weather_current' :
                      /\ weather_current'[j].city = weather_current[i].city
                      /\ weather_current'[j].collected_at = now]_vars

\* The three readers have run on a store that holds rows.
C7_Witness ==
    /\ pc = "summary"
    /\ completed = <<"analyze", "quality", "visualize">>
    /\ Len(weather_current) = 2
    /\ weather_daily # <<>>
    /\ weather_hourly # <<>>

\* C8 as stated: a reader stage selected alone completes with exit code 0
\* in any store state.
C8_IsolatedAnyStore ==
    \A s \in Readers :
        (pc = "done" /\ ~interrupted /\ args = Only(s))
            => exit_code = Some(0) /\ completed = <<s>>

\* C8, amended: a reader stage selected alone completes with exit code 0
\* when the tables exist, whatever rows they hold; without tables it raises
\* and the run exits with code 1.
C8_IsolatedWithTables ==
    \A s \in Readers :
        (pc = "done" /\ ~interrupted /\ args = Only(s))
            => IF schema
               THEN exit_code = Some(0) /\ completed = <<s>>
               ELSE exit_code = Some(1) /\ raised = Some(s) /\ completed = <<>>

\* The Analyzer alone on tables that exist and are empty.
C8_Witness ==
    /\ pc = "done"
    /\ args = Only("analyze")
    /\ schema
    /\ weather_daily = <<>>
    /\ exit_code = Some(0)
    /\ completed = <<"analyze">>

\* Outlier counts up to the one that takes 100 % down to the clamp.
OutlierCounts == 0..51

\* The reported score is avg(completeness) - 2 * (number of outlier flags),
\* clamped to [0, 100]; it is 0 without cities; for the reported
\* completeness and any outlier count it stays in [0, 100] and does not
\* grow with the count.
ScoreAsSpecified ==
    quality_report # None =>
        LET r == quality_report[1]
            cities == CitiesOf(weather_current)
            n == Cardinality(cities)
            filled(c) == Cardinality({i \in DOMAIN weather_current :
                                        /\ weather_current[i].city = c
                                        /\ weather_current[i].temperature # None})
            total(c) == Cardinality({i \in DOMAIN weather_current :
                                       weather_current[i].city = c})
            S == SumOver([c \in cities |->
                            (2 * 1000 * filled(c) + total(c)) \div (2 * total(c))],
                         cities)
            K == SumOver([c \in cities |-> Len(r.anomalies[c].anomalies)], cities)
            score == r.quality_score
            avg == r.metrics.avg_completeness
        IN /\ DOMAIN r.anomalies = cities
           /\ 0 <= score.num /\ score.num <= 100 * score.den
           /\ n = 0 => score.num = 0
           /\ n > 0 => /\ score.den = 10 * n
                       /\ score.num = Max2(0, Min2(1000 * n, S - 2 * K * 10 * n))
           /\ \A k \in OutlierCounts :
                 /\ 0 <= quality_score(avg, k).num
                 /\ quality_score(avg, k).num <= 100 * avg.den
                 /\ quality_score(avg, k + 1).num <= quality_score(avg, k).num

\* C9 as stated: in every store state generate_quality_report yields a
\* score, and the score is the clamped formula.
C9_ScoreInEveryStore ==
    /\ "quality" \in Range(started) => quality_report # None
    /\ ScoreAsSpecified

\* C9, amended: when the tables exist generate_quality_report yields a
\* score, and the score is the clamped formula, 0 without cities; without
\* tables it raises and there is no score.
C9_QualityScore ==
    /\ "quality" \in Range(started) =>
          IF schema
          THEN quality_report # None
          ELSE quality_report = None /\ raised = Some("quality")
    /\ ScoreAsSpecified

\* Two cities, one without a temperature and one flagged: (100 + 0)/2 - 2.
C9_Witness ==
    /\ quality_report # None
    /\ quality_report[1].metrics.cities_analyzed = 2
    /\ quality_report[1].metrics.total_anomalies = 1
    /\ quality_report[1].quality_score = [num |-> 960, den |-> 20]

OutlierTypes(entry) == {entry.anomalies[i].type : i \in DOMAIN entry.anomalies}

\* C10: in the report of check_outliers a city whose minimum stored
\* temperature is below -60 carries extreme_cold, and a city whose stored
\* temperatures lie in [-60, 60] with a range of at most 40 carries no flag.
C10_Outliers ==
    quality_report # None =>
        LET anomalies == quality_report[1].anomalies
        IN \A c \in CitiesOf(weather_current) :
              LET temps == TempsOf(weather_current, c)
              IN /\ c \in DOMAIN anomalies
                 /\ (temps # {} /\ SetMin(temps) < -60)
                       => "extreme_cold" \in OutlierTypes(anomalies[c])
                 /\ (/\ \A t \in temps : -60 <= t /\ t <= 60
                     /\ temps # {} => SetMax(temps) - SetMin(temps) <= 40)
                       => /\ anomalies[c].anomalies = <<>>
                          /\ ~anomalies[c].has_issues

\* One city at -70 flagged extreme_cold beside one at 20 without a flag.
C10_Witness ==
    /\ quality_report # None
    /\ \E c, d \in CitiesOf(weather_current) :
          /\ TempsOf(weather_current, c) = {-70}
          /\ OutlierTypes(quality_report[1].anomalies[c]) = {"extreme_cold"}
          /\ TempsOf(weather_current, d) = {20}
          /\ quality_report[1].anomalies[d].anomalies = <<>>

DateIndex(d) == CHOOSE i \in DOMAIN Dates : Dates[i] = d

\* C11: analyze_temperature_trends returns, per city, one entry per stored
\* daily row in date order; avg is (max+min)/2 whenever max and min are both
\* present, whatever their values, and null exactly when one is missing.
C11_TrendsAvg ==
    analysis_report # None =>
        LET trends == analysis_report[1].temperature_analysis
        IN /\ DOMAIN trends = CitiesOf(weather_daily)
           /\ \A c \in DOMAIN trends :
                 /\ Len(trends[c]) = Len(RowsOf(weather_daily, c))
                 /\ \A i, j \in DOMAIN trends[c] :
                       i < j => DateIndex(trends[c][i].date)
                                   <= DateIndex(trends[c][j].date)
                 /\ \A i \in DOMAIN trends[c] :
                       LET e == trends[c][i]
                       IN /\ (e.avg = None) <=> (e.max = None \/ e.min = None)
                          /\ e.avg # None =>
                                2 * e.avg[1].num = (e.max[1] + e.min[1]) * e.avg[1].den

RECURSIVE ProdOver(_, _)
ProdOver(f, S) ==
    IF S = {} THEN 1
    ELSE LET x == CHOOSE y \in S : TRUE
         IN f[x] * ProdOver(f, S \ {x})

\* The LOW climate_comparison insights of the report, as (city, direction).
Comparisons ==
    LET insights == analysis_report[1].insights
    IN {<<insights[i].city, insights[i].message>> :
           i \in {j \in DOMAIN insights :
                    /\ insights[j].type = "climate_comparison"
                    /\ insights[j].severity = "LOW"}}

\* C12: generate_insights emits a LOW climate_comparison insight for a city
\* exactly when |A_c - G| > 10, A_c the average of the city's stored
\* max-temperatures and G the average of A_c over the cities with daily
\* data; the direction is warmer when A_c > G and colder otherwise.
C12_ClimateComparison ==
    analysis_report # None =>
        LET maxes(c) == {i \in DOMAIN weather_daily :
                            /\ weather_daily[i].city = c
                            /\ weather_daily[i].temp_max # None}
            H == {c \in CitiesOf(weather_daily) : maxes(c) # {}}
            S == [c \in H |-> SumOver([i \in maxes(c) |-> weather_daily[i].temp_max[1]],
                                      maxes(c))]
            K == [c \in H |-> Cardinality(maxes(c))]
            P == ProdOver(K, H)
            m == Cardinality(H)
            \* m * P * (A_c - G)
            diff(c) == m * S[c] * (P \div K[c])
                          - SumOver([d \in H |-> S[d] * (P \div K[d])], H)
            far(c) == diff(c) > 10 * m * P \/ -diff(c) > 10 * m * P
        IN /\ \A c \in CityNames :
                 (c \in H /\ far(c))
                     <=> \E p \in Comparisons : p[1] = c
           /\ \A p \in Comparisons :
                 p[2] = IF diff(p[1]) > 0 THEN "warmer" ELSE "colder"

\* The out-of-range rows of a city, per field, counted on the table.
InvalidOf(c, field, lo, hi) ==
    Cardinality({i \in DOMAIN weather_current :
                    /\ weather_current[i].city = c
                    /\ weather_current[i][field] # None
                    /\ (weather_current[i][field][1] < lo
                           \/ weather_current[i][field][1] > hi)})

\* C13: check_validity counts the out-of-range rows per city and per field:
\* a city with a violation has an issue list naming each violated field
\* with the city's own count, a city without one has no issue, and with no
\* row out of range the result is the 'no problems found' value.
C13_ValidityPerCity ==
    quality_report # None =>
        LET result == quality_report[1].validity.validity_check
            temp(c) == InvalidOf(c, "temperature", -50, 50)
            hum(c) == InvalidOf(c, "humidity", 0, 100)
            bad == {c \in CitiesOf(weather_current) : temp(c) > 0 \/ hum(c) > 0}
            expected(c) ==
                (IF temp(c) > 0
                 THEN {[field |-> "temperature", invalid |-> temp(c)]} ELSE {})
                \cup (IF hum(c) > 0
                      THEN {[field |-> "humidity", invalid |-> hum(c)]} ELSE {})
        IN IF bad = {}
           THEN result.kind = "no_problems"
           ELSE /\ result.kind = "issues"
                /\ {result.issues[i].key : i \in DOMAIN result.issues}
                      = {Some(c) : c \in bad}
                /\ \A i \in DOMAIN result.issues :
                      Range(result.issues[i].problems)
                          = expected(result.issues[i].key[1])

\* The array of a payload's section under a key, empty when either is missing.
ArrayOf(data, section, key) ==
    IF section \in DOMAIN data /\ key \in DOMAIN data[section]
    THEN data[section][key] ELSE <<>>

\* The element the payload has for a metric at index i, null beyond its end.
ElementOrNull(xs, i) == IF i \in DOMAIN xs THEN xs[i] ELSE None

ShortArray(data) ==
    \/ \E key \in {"temperature_2m_max", "temperature_2m_min", "precipitation_sum"} :
          Len(ArrayOf(data, "daily", key)) < Len(ArrayOf(data, "daily", "time"))
    \/ Len(ArrayOf(data, "hourly", "temperature_2m"))
          < Len(ArrayOf(data, "hourly", "time"))

\* C14: for every payload of the batch, _save_to_db has written one daily
\* row per element of the daily time array and one hourly row per element
\* of the hourly time array, row i holding element i of each metric array
\* or null where the array is too short; a batch with a short array is
\* saved like any other.
C14_NullFill ==
    /\ (/\ pc = "fetching"
        /\ \A i \in DOMAIN tasks : tasks[i].done
        /\ \E i \in DOMAIN tasks :
              tasks[i].succeeded /\ ShortArray(tasks[i].result[1].data))
          => ENABLED CollectBatchReturn
    /\ "collect" \in Range(completed) =>
          \A j \in DOMAIN collector_obj[1] :
              LET item == collector_obj[1][j]
                  daily == RowsAt(weather_daily, item.city, item.collected_at)
                  hourly == RowsAt(weather_hourly, item.city, item.collected_at)
                  days == ArrayOf(item.data, "daily", "time")
                  hours == ArrayOf(item.data, "hourly", "time")
              IN /\ Len(daily) = Len(days)
                 /\ Len(hourly) = Len(hours)
                 /\ \A i \in DOMAIN daily :
                       /\ daily[i].date = days[i]
                       /\ daily[i].temp_max = ElementOrNull(
                             ArrayOf(item.data, "daily", "temperature_2m_max"), i)
                       /\ daily[i].temp_min = ElementOrNull(
                             ArrayOf(item.data, "daily", "temperature_2m_min"), i)
                       /\ daily[i].precipitation = ElementOrNull(
                             ArrayOf(item.data, "daily", "precipitation_sum"), i)
                 /\ \A i \in DOMAIN hourly :
                       /\ hourly[i].hour = hours[i]
                       /\ hourly[i].temperature = ElementOrNull(
                             ArrayOf(item.data, "hourly", "temperature_2m"), i)

\* A payload with two dates and one maximum has been saved: the second row
\* has a null maximum beside the first row's value, and the hour without a
\* temperature has its row.
C14_Witness ==
    /\ "collect" \in Range(completed)
    /\ \E j \in DOMAIN collector_obj[1] :
          LET item == collector_obj[1][j]
              daily == RowsAt(weather_daily, item.city, item.collected_at)
              hourly == RowsAt(weather_hourly, item.city, item.collected_at)
          IN /\ ShortArray(item.data)
             /\ Len(daily) = 2
             /\ daily[1].temp_max = Some(0)
             /\ daily[2].temp_max = None
             /\ daily[2].precipitation = None
             /\ Len(hourly) = 1
             /\ hourly[1].temperature = None

\* The files the stage that has just completed wrote.
WrittenBy(stage) ==
    CASE stage = "analyze" -> {File("analytics", "", second)}
      [] stage = "quality" -> {File("quality_report", "", second)}
      [] stage = "visualize" ->
            {File("report", "", second)}
                \cup FilesOf(generate_hourly_charts(MATPLOTLIB_AVAILABLE'[1],
                                                    weather_hourly, second))
                \cup FilesOf(generate_daily_charts(MATPLOTLIB_AVAILABLE'[1],
                                                   weather_daily, second))
      [] OTHER -> {}

\* C15: no stage writes an artifact under a file name that is already in
\* results/: each run produces new files and overwrites none.
C15_NoOverwrite ==
    [][Len(completed') > Len(completed)
          => WrittenBy(completed'[Len(completed')]) \cap results_dir = {}]_vars

\* C16: a run ended by an interrupt has completed every stage it started:
\* the interrupt falls between stages, never inside one.
C16_InterruptBetweenStages ==
    (pc = "done" /\ exit_code = Some(130)) => started = completed

\* Per city of the table, the percentage is 100 * F / T rounded to one
\* decimal (half up), T the city's rows and F those with a temperature;
\* no city has T = 0.
CompletenessAsSpecified ==
    quality_report # None =>
        LET completeness == quality_report[1].completeness
        IN /\ DOMAIN completeness = CitiesOf(weather_current)
           /\ \A c \in DOMAIN completeness :
                 LET T == Cardinality({i \in DOMAIN weather_current :
                                         weather_current[i].city = c})
                     F == Cardinality({i \in DOMAIN weather_current :
                                         /\ weather_current[i].city = c
                                         /\ weather_current[i].temperature # None})
                     tenths == completeness[c].completeness_percent
                 IN /\ T > 0
                    /\ completeness[c].total_records = T
                    /\ completeness[c].temperature_filled = F
                    /\ 2 * T * tenths <= 2 * 1000 * F + T
                    /\ 2 * 1000 * F + T < 2 * T * (tenths + 1)

\* C17 as stated: check_completeness reports round(100*F/T, 1) per city and
\* fails in no store state.
C17_CompletenessEveryStore ==
    /\ raised # Some("quality")
    /\ CompletenessAsSpecified

\* C17, amended: when the tables exist check_completeness reports
\* round(100*F/T, 1) per city and does not fail, an empty table giving an
\* empty report; without tables its query raises.
C17_Completeness ==
    /\ raised = Some("quality") <=> ("quality" \in Range(started) /\ ~schema)
    /\ ("quality" \in Range(completed) /\ weather_current = <<>>)
          => quality_report # None /\ DOMAIN quality_report[1].completeness = {}
    /\ CompletenessAsSpecified

\* One city with a temperature and one without: 100.0 and 0.0.
C17_Witness ==
    /\ quality_report # None
    /\ \E c, d \in DOMAIN quality_report[1].completeness :
          /\ quality_report[1].completeness[c].completeness_percent = 1000
          /\ quality_report[1].completeness[d].completeness_percent = 0
          /\ quality_report[1].completeness[d].humidity_filled = 1

ChartFiles == {f \in results_dir : f.kind \in {"hourly", "daily"}}

\* The Visualize stage has run to its end without the plotting library.
VisualizedWithoutPlotting ==
    /\ MATPLOTLIB_AVAILABLE = Some(FALSE)
    /\ "visualize" \in Range(completed)

\* Without the plotting library the stage fails only on missing tables;
\* completed, it has written the text report and no chart.
WithoutPlotting ==
    MATPLOTLIB_AVAILABLE = Some(FALSE) =>
        /\ raised # None <=> (~schema /\ raised = Some("visualize"))
        /\ schema => VisualizedWithoutPlotting
        /\ VisualizedWithoutPlotting =>
              /\ viz_files # None
              /\ viz_files[1].html = None
              /\ viz_files[1].text = File("report", "", second)
              /\ viz_files[1].text \in results_dir
              /\ {f \in ChartFiles : f.timestamp = second} = {}
              /\ pc \in {"summary", "done"}
              /\ pc = "done" => exit_code \in {Some(0), Some(130)}
              /\ (pc = "done" /\ ~interrupted) => exit_code = Some(0)

\* C18: when the Visualize stage runs without the plotting library, it
\* writes no chart and changes no table, it fails only if the tables are
\* missing, and otherwise it completes with an empty dashboard result and
\* the text report written; the run then ends with 0 unless interrupted.
C18_PlottingOptional ==
    /\ []WithoutPlotting
    /\ [][(MATPLOTLIB_AVAILABLE = None /\ MATPLOTLIB_AVAILABLE' = Some(FALSE))
            => /\ UNCHANGED <<schema, weather_current, weather_daily, weather_hourly>>
               /\ ChartFiles' = ChartFiles
               /\ results_dir' \ results_dir \subseteq {File("report", "", second)}]_vars

\* The store holds hourly and daily rows, the plotting library is missing:
\* the run has ended with 0, the text report is there and no chart is.
C18_Witness ==
    /\ pc = "done"
    /\ exit_code = Some(0)
    /\ VisualizedWithoutPlotting
    /\ weather_hourly # <<>>
    /\ weather_daily # <<>>
    /\ viz_files[1].html = None
    /\ File("report", "", second) \in results_dir
    /\ ChartFiles = {}

\* The position of a city in the list given to collect_batch.
InputIndex(c) == CHOOSE i \in DOMAIN tasks : tasks[i].city = c

\* The cities of the rows in input order, rows of one city together.
InInputOrder(rows) ==
    \A i, j \in DOMAIN rows :
        i < j => InputIndex(rows[i].city) <= InputIndex(rows[j].city)

\* While requests of the batch are in flight the store holds no row of
\* this batch.
NothingWrittenYet ==
    pc = "fetching" =>
        \A c \in CityNames :
            /\ RowsAt(weather_current, c, now) = <<>>
            /\ RowsAt(weather_daily, c, now) = <<>>
            /\ RowsAt(weather_hourly, c, now) = <<>>

\* C19: whatever the order in which the requests of a batch complete, no
\* row is written before all of them have completed or failed, and the
\* returned list and the rows written are those of the successful requests
\* in the order of the input city list.
C19_OrderIndependent ==
    /\ []NothingWrittenYet
    /\ [][<<weather_current, weather_daily, weather_hourly>>'
               # <<weather_current, weather_daily, weather_hourly>>
            => /\ pc = "fetching"
               /\ \A i \in DOMAIN tasks : tasks[i].done]_vars
    /\ [][(pc = "fetching" /\ pc' = "analyze")
            => LET returned == collector_obj'[1]
                   ok == {i \in DOMAIN tasks : tasks[i].succeeded}
                   new_daily == SubSeq(weather_daily', Len(weather_daily) + 1,
                                       Len(weather_daily'))
                   new_hourly == SubSeq(weather_hourly', Len(weather_hourly) + 1,
                                        Len(weather_hourly'))
                   new_current == SelectSeq(weather_current',
                                            LAMBDA r : r.collected_at = now)
               IN /\ Len(returned) = Cardinality(ok)
                  /\ \A j \in DOMAIN returned :
                        /\ InputIndex(returned[j].city) \in ok
                        /\ returned[j] = tasks[InputIndex(returned[j].city)].result[1]
                  /\ \A j, k \in DOMAIN returned :
                        j < k => InputIndex(returned[j].city)
                                    < InputIndex(returned[k].city)
                  /\ InInputOrder(new_daily)
                  /\ InInputOrder(new_hourly)
                  /\ InInputOrder(new_current)]_vars

\* The request of the second city has completed while the first is still
\* in flight, and nothing of it is in the store.
C19_Witness ==
    /\ pc = "fetching"
    /\ Len(tasks) = 2
    /\ ~tasks[1].done
    /\ tasks[2].done
    /\ tasks[2].succeeded
    /\ NothingWrittenYet

\* C20: in every quality report each city's temperature range is 0 or
\* null, no city carries extreme_range, every city carries at most one
\* flag, and the total number of flags is at most the number of cities.
C20_AtMostOneFlag ==
    quality_report # None =>
        LET anomalies == quality_report[1].anomalies
            metrics == quality_report[1].metrics
        IN /\ \A c \in DOMAIN anomalies :
                 /\ Len(RowsOf(weather_current, c)) = 1
                 /\ anomalies[c].range \in {None, Some(0)}
                 /\ "extreme_range" \notin OutlierTypes(anomalies[c])
                 /\ Len(anomalies[c].anomalies) <= 1
                 /\ OutlierTypes(anomalies[c]) \subseteq {"extreme_cold", "extreme_heat"}
           /\ metrics.total_anomalies <= metrics.cities_analyzed
           /\ metrics.total_anomalies <= Cardinality(CitiesOf(weather_current))

\* A city collected in two runs whose row, the second run's, is flagged
\* extreme_cold, beside a city without a temperature: ranges 0 and null,
\* one flag in all.
C20_Witness ==
    /\ quality_report # None
    /\ \E c, d \in DOMAIN quality_report[1].anomalies :
          /\ lastCurrent[c] # None
          /\ lastCurrent[c][1].collected_at = 2
          /\ \E i \in DOMAIN weather_daily :
                weather_daily[i].city = c /\ weather_daily[i].collected_at = 1
          /\ quality_report[1].anomalies[c].range = Some(0)
          /\ OutlierTypes(quality_report[1].anomalies[c]) = {"extreme_cold"}
          /\ quality_report[1].anomalies[d].range = None
    /\ quality_report[1].metrics.total_anomalies = 1
    /\ quality_report[1].metrics.cities_analyzed = 2

====
